---- MODULE Spec2Model ----
(***************************************************************************)
(* Model of ckg-tool/test-projects/python-project/main.py: the user        *)
(* registry (UserManager), the database stub (DatabaseManager), the        *)
(* stateless helpers and the demonstration entry point main().             *)
(*                                                                         *)
(* Python values are tagged records: [t |-> "bool", v |-> b],              *)
(* [t |-> "none"], [t |-> "str", v |-> <<chars>>], [t |-> "int", v |-> n], *)
(* [t |-> "list", v |-> <<...>>], [t |-> "dict", v |-> ...]; a raised      *)
(* exception is [t |-> "raise", exc |-> class, msg |-> message].           *)
(* A Python str is a sequence of one-character strings.                    *)
(***************************************************************************)
EXTENDS Integers, Sequences, FiniteSets, TLC

VARIABLES
    name,         \* the module's __name__: "__main__" when run as a script
    users,        \* UserManager.users of the instance under test (insertion-ordered dict)
    connected,    \* DatabaseManager.connected of the instance under test
    ret,          \* the last call on the instances under test: [op, args, val]
    log,          \* every call made so far on the instances under test, in order
    m_pc,         \* position of main()
    m_connected,  \* db_manager.connected inside main()
    m_users,      \* user_manager.users inside main() (empty until it is constructed)
    m_calls,      \* the calls main() has made, in order, with their results
    m_out,        \* the lines main() has printed
    u_pc,         \* helper-function harness: "call" before the call, "done" after
    u_fn,         \* helper-function harness: the function applied
    u_arg,        \* helper-function harness: its argument
    u_res         \* helper-function harness: its result (or raised exception)

vars == <<name, users, connected, ret, log, m_pc, m_connected, m_users, m_calls, m_out,
          u_pc, u_fn, u_arg, u_res>>

regVars  == <<users, connected, ret, log>>
mainVars == <<m_pc, m_connected, m_users, m_calls, m_out>>
utilVars == <<u_pc, u_fn, u_arg, u_res>>

-----------------------------------------------------------------------------
(* Bounds *)

MaxCalls == 3

MaxItems == 3

MaxNameLen == 2

MaxEmailLen == 2

MaxAgeLen == 2

-----------------------------------------------------------------------------
(* Python values *)

PyBool(b) == [t |-> "bool", v |-> b]

PyNone == [t |-> "none"]

PyStr(s) == [t |-> "str", v |-> s]

PyInt(n) == [t |-> "int", v |-> n]

PyList(l) == [t |-> "list", v |-> l]

PyDict(d) == [t |-> "dict", v |-> d]

PyRaise(e, m) == [t |-> "raise", exc |-> e, msg |-> m]

\* bool(x) for the value kinds above
Truthy(x) ==
    CASE x.t = "bool" -> x.v
      [] x.t = "none" -> FALSE
      [] x.t = "str"  -> Len(x.v) > 0
      [] x.t = "int"  -> x.v # 0
      [] x.t = "list" -> Len(x.v) > 0
      [] x.t = "dict" -> TRUE
      [] OTHER        -> TRUE

-----------------------------------------------------------------------------
(* Dict[str, str]: an insertion-ordered sequence of [k, v] entries with     *)
(* pairwise distinct keys.                                                  *)

EmptyDict == << >>

\* key in d
DictHas(d, key) == \E i \in 1..Len(d) : d[i].k = key

\* d[key]
DictGet(d, key) == d[CHOOSE i \in 1..Len(d) : d[i].k = key].v

\* d[key] = val : overwrite in place, or append a new entry
DictSet(d, key, val) ==
    IF DictHas(d, key)
    THEN [i \in 1..Len(d) |-> IF d[i].k = key THEN [k |-> key, v |-> val] ELSE d[i]]
    ELSE Append(d, [k |-> key, v |-> val])

DictKeys(d) == {d[i].k : i \in 1..Len(d)}

-----------------------------------------------------------------------------
(* UserManager *)

create_userNoCheck(us, username, email) ==
    [users |-> DictSet(us, username, email), val |-> PyBool(TRUE)]

create_userOverwrite(us, username, email) ==
    IF DictHas(us, username)
    THEN [users |-> DictSet(us, username, email), val |-> PyBool(FALSE)]
    ELSE [users |-> DictSet(us, username, email), val |-> PyBool(TRUE)]

\* UserManager.create_user
create_user(us, username, email) ==
    IF DictHas(us, username)
    THEN [users |-> us, val |-> PyBool(FALSE)]
    ELSE [users |-> DictSet(us, username, email), val |-> PyBool(TRUE)]

authenticateStrict(us, username, password) ==
    IF ~DictHas(us, username)
    THEN PyBool(FALSE)
    ELSE PyBool(Len(password) > 6)

\* UserManager.authenticate
authenticate(us, username, password) ==
    IF ~DictHas(us, username)
    THEN PyBool(FALSE)
    ELSE PyBool(Len(password) >= 6)

get_user_infoLast(us, username) ==
    IF ~DictHas(us, username)
    THEN PyNone
    ELSE PyDict([username |-> username, email |-> us[Len(us)].v])

\* UserManager.get_user_info
get_user_info(us, username) ==
    IF ~DictHas(us, username)
    THEN PyNone
    ELSE PyDict([username |-> username, email |-> DictGet(us, username)])

-----------------------------------------------------------------------------
(* DatabaseManager *)

\* stands for the (non-ASCII) message literal of the exception raised by execute_query
NotConnectedMsg == "database not connected"

connectNoop(conn) == [connected |-> conn, val |-> PyBool(TRUE)]

\* DatabaseManager.connect: the try body cannot raise, so the except branch
\* (print and return False) has no execution.
connect(conn) == [connected |-> TRUE, val |-> PyBool(TRUE)]

execute_queryNoCheck(conn, query) ==
    PyList(<<[id |-> 1, name |-> "test"]>>)

\* DatabaseManager.execute_query
execute_query(conn, query) ==
    IF ~conn
    THEN PyRaise("Exception", NotConnectedMsg)
    ELSE PyList(<<[id |-> 1, name |-> "test"]>>)

closeNoop(conn) == conn

\* DatabaseManager.close
close(conn) == FALSE

-----------------------------------------------------------------------------
(* str methods used by process_user_data *)

LowerLetters == <<"a", "b", "c", "d", "e", "f", "g", "h", "i", "j", "k", "l", "m",
                  "n", "o", "p", "q", "r", "s", "t", "u", "v", "w", "x", "y", "z">>

UpperLetters == <<"A", "B", "C", "D", "E", "F", "G", "H", "I", "J", "K", "L", "M",
                  "N", "O", "P", "Q", "R", "S", "T", "U", "V", "W", "X", "Y", "Z">>

Digits == <<"0", "1", "2", "3", "4", "5", "6", "7", "8", "9">>

IsIn(c, seq) == \E i \in 1..Len(seq) : seq[i] = c

IndexIn(c, seq) == CHOOSE i \in 1..Len(seq) : seq[i] = c

IsSpace(c) == c \in {" ", "\t", "\n", "\r"}

\* a cased character: one that has an upper and a lower form
IsCased(c) == IsIn(c, LowerLetters) \/ IsIn(c, UpperLetters)

LowerChar(c) == IF IsIn(c, UpperLetters) THEN LowerLetters[IndexIn(c, UpperLetters)] ELSE c

UpperChar(c) == IF IsIn(c, LowerLetters) THEN UpperLetters[IndexIn(c, LowerLetters)] ELSE c

RECURSIVE LStrip(_)
LStrip(s) ==
    IF s = << >> THEN s
    ELSE IF IsSpace(Head(s)) THEN LStrip(Tail(s)) ELSE s

RECURSIVE RStrip(_)
RStrip(s) ==
    IF s = << >> THEN s
    ELSE IF IsSpace(s[Len(s)]) THEN RStrip(SubSeq(s, 1, Len(s) - 1)) ELSE s

\* str.strip()
strip(s) == RStrip(LStrip(s))

\* str.lower()
lower(s) == [i \in 1..Len(s) |-> LowerChar(s[i])]

titleNoLower(s) ==
    [i \in 1..Len(s) |->
        IF IsCased(s[i]) /\ ~(i > 1 /\ IsCased(s[i - 1])) THEN UpperChar(s[i]) ELSE s[i]]

\* str.title(): a cased character is upper-cased when the character before it
\* is uncased (or there is none) and lower-cased otherwise
title(s) ==
    [i \in 1..Len(s) |->
        IF IsCased(s[i])
        THEN IF i > 1 /\ IsCased(s[i - 1]) THEN LowerChar(s[i]) ELSE UpperChar(s[i])
        ELSE s[i]]

\* the digits of s without the underscores
RECURSIVE DigitsOnly(_)
DigitsOnly(s) ==
    IF s = << >> THEN s
    ELSE IF Head(s) = "_" THEN DigitsOnly(Tail(s)) ELSE <<Head(s)>> \o DigitsOnly(Tail(s))

RECURSIVE DecimalValue(_)
DecimalValue(s) ==
    IF s = << >> THEN 0
    ELSE 10 * DecimalValue(SubSeq(s, 1, Len(s) - 1)) + (IndexIn(s[Len(s)], Digits) - 1)

\* an unsigned decimal literal: digits, with single underscores between digits
IsDecimalLiteral(s) ==
    /\ Len(s) > 0
    /\ \A i \in 1..Len(s) : IsIn(s[i], Digits) \/ s[i] = "_"
    /\ IsIn(s[1], Digits)
    /\ IsIn(s[Len(s)], Digits)
    /\ \A i \in 1..(Len(s) - 1) : ~(s[i] = "_" /\ s[i + 1] = "_")

\* int(str): surrounding whitespace is ignored, one optional sign, base 10
ParseInt(s) ==
    LET body   == strip(s)
        signed == Len(body) > 0 /\ body[1] \in {"+", "-"}
        digits == IF signed THEN Tail(body) ELSE body
    IN  IF IsDecimalLiteral(digits)
        THEN PyInt((IF signed /\ body[1] = "-" THEN -1 ELSE 1) * DecimalValue(DigitsOnly(digits)))
        ELSE PyRaise("ValueError", "invalid literal for int() with base 10")

intTypeError(x) ==
    CASE x.t = "int"  -> x
      [] x.t = "bool" -> PyInt(IF x.v THEN 1 ELSE 0)
      [] x.t = "str"  -> IF ParseInt(x.v).t = "raise"
                         THEN PyRaise("TypeError", "int() argument must be a number")
                         ELSE ParseInt(x.v)
      [] OTHER        -> PyRaise("TypeError", "int() argument must be a string or a number")

\* int(x)
int(x) ==
    CASE x.t = "int"  -> x
      [] x.t = "bool" -> PyInt(IF x.v THEN 1 ELSE 0)
      [] x.t = "str"  -> ParseInt(x.v)
      [] OTHER        -> PyRaise("TypeError", "int() argument must be a string or a number")

-----------------------------------------------------------------------------
(* Stateless helpers.  A dict argument is a function from the keys present  *)
(* to their values.                                                         *)

calculate_totalDefaultQuantity(items) ==
    LET RECURSIVE Loop(_, _)
        Loop(total, i) ==
            IF i > Len(items) THEN total
            ELSE IF "price" \in DOMAIN items[i]
                 THEN Loop(total + items[i]["price"] *
                             (IF "quantity" \in DOMAIN items[i] THEN items[i]["quantity"] ELSE 1),
                           i + 1)
                 ELSE Loop(total, i + 1)
    IN  Loop(0, 1)

\* calculate_total: the for loop, item by item; the float total is modelled by
\* its (integer) value
calculate_total(items) ==
    LET RECURSIVE Loop(_, _)
        Loop(total, i) ==
            IF i > Len(items) THEN total
            ELSE IF "price" \in DOMAIN items[i] /\ "quantity" \in DOMAIN items[i]
                 THEN Loop(total + items[i]["price"] * items[i]["quantity"], i + 1)
                 ELSE Loop(total, i + 1)
    IN  Loop(0, 1)

required_fields == <<"name", "email", "age">>

validate_inputPresenceOnly(data) ==
    PyBool(\A i \in 1..Len(required_fields) : required_fields[i] \in DOMAIN data)

\* validate_input: the for loop over required_fields with its early returns
validate_input(data) ==
    LET RECURSIVE Loop(_)
        Loop(i) ==
            IF i > Len(required_fields) THEN PyBool(TRUE)
            ELSE IF required_fields[i] \notin DOMAIN data THEN PyBool(FALSE)
            ELSE IF ~Truthy(data[required_fields[i]]) THEN PyBool(FALSE)
            ELSE Loop(i + 1)
    IN  Loop(1)

\* {'error': 'Invalid input data'}
ErrorRecord == PyDict([error |-> "Invalid input data"])

\* x.strip(): only str has the method
StripOf(x) ==
    IF x.t = "str" THEN PyStr(strip(x.v))
    ELSE PyRaise("AttributeError", "object has no attribute 'strip'")

\* process_user_data: the dict display is evaluated entry by entry, so the
\* first entry that raises decides the exception
process_user_data(user_data) ==
    IF ~Truthy(validate_input(user_data)) THEN ErrorRecord
    ELSE LET n == StripOf(user_data["name"])
             e == StripOf(user_data["email"])
             a == int(user_data["age"])
         IN  IF n.t = "raise" THEN n
             ELSE IF e.t = "raise" THEN e
             ELSE IF a.t = "raise" THEN a
             ELSE PyDict([name |-> PyStr(title(n.v)), email |-> PyStr(lower(e.v)), age |-> a])

-----------------------------------------------------------------------------
(* Inputs of the calls made on the instances under test *)

Usernames == {"john_doe", "alice"}

Emails == {"john@example.com", "other@example.com"}

Pw5 == <<"1", "2", "3", "4", "5">>

Pw6 == <<"1", "2", "3", "4", "5", "6">>

Pw6b == <<"a", "b", "c", "d", "e", "f">>

\* "anypassword"
Pw11 == <<"a", "n", "y", "p", "a", "s", "s", "w", "o", "r", "d">>

Passwords == {Pw5, Pw6, Pw6b, Pw11}

Queries == {"SELECT * FROM users", "DROP TABLE users"}

Call(op, args, val) == [op |-> op, args |-> args, val |-> val]

NoCall == Call("none", << >>, PyNone)

-----------------------------------------------------------------------------
(* One action per method called on the instances under test *)

CreateUser ==
    /\ name # "__main__"
    /\ Len(log) < MaxCalls
    /\ \E username \in Usernames, email \in Emails :
          LET r == create_user(users, username, email)
              c == Call("create_user", <<username, email>>, r.val)
          IN  /\ users' = r.users
              /\ ret' = c
              /\ log' = Append(log, c)
    /\ UNCHANGED <<connected, mainVars, utilVars, name>>

Authenticate ==
    /\ name # "__main__"
    /\ Len(log) < MaxCalls
    /\ \E username \in Usernames, password \in Passwords :
          LET c == Call("authenticate", <<username, password>>,
                        authenticate(users, username, password))
          IN  /\ ret' = c
              /\ log' = Append(log, c)
    /\ UNCHANGED <<users, connected, mainVars, utilVars, name>>

GetUserInfo ==
    /\ name # "__main__"
    /\ Len(log) < MaxCalls
    /\ \E username \in Usernames :
          LET c == Call("get_user_info", <<username>>, get_user_info(users, username))
          IN  /\ ret' = c
              /\ log' = Append(log, c)
    /\ UNCHANGED <<users, connected, mainVars, utilVars, name>>

Connect ==
    /\ name # "__main__"
    /\ Len(log) < MaxCalls
    /\ LET r == connect(connected)
           c == Call("connect", << >>, r.val)
       IN  /\ connected' = r.connected
           /\ ret' = c
           /\ log' = Append(log, c)
    /\ UNCHANGED <<users, mainVars, utilVars, name>>

ExecuteQuery ==
    /\ name # "__main__"
    /\ Len(log) < MaxCalls
    /\ \E query \in Queries :
          LET c == Call("execute_query", <<query>>, execute_query(connected, query))
          IN  /\ ret' = c
              /\ log' = Append(log, c)
    /\ UNCHANGED <<users, connected, mainVars, utilVars, name>>

Close ==
    /\ name # "__main__"
    /\ Len(log) < MaxCalls
    /\ LET c == Call("close", << >>, PyNone)
       IN  /\ connected' = close(connected)
           /\ ret' = c
           /\ log' = Append(log, c)
    /\ UNCHANGED <<users, mainVars, utilVars, name>>

-----------------------------------------------------------------------------
(* main(): one action per statement that calls a method; the prints and     *)
(* constructions between two calls belong to the step of the call before.   *)

MainUser == "john_doe"

MainEmail == "john@example.com"

\* "password123"
MainPassword == <<"p", "a", "s", "s", "w", "o", "r", "d", "1", "2", "3">>

\* ASCII names of the printed (non-ASCII) message literals
Line(msg, arg) == [msg |-> msg, arg |-> arg]

MsgHeader == Line("header", PyNone)

MsgConnectOk == Line("connect ok", PyNone)

MsgConnectFailed == Line("connect failed", PyNone)

MsgUserCreated == Line("user created", PyNone)

MsgUserAuthenticated == Line("user authenticated", PyNone)

MsgUserInfo(info) == Line("user info", info)

\* print header; db_manager = DatabaseManager("sqlite:///test.db")
MainStart ==
    /\ name = "__main__"
    /\ m_pc = "start"
    /\ m_out' = Append(m_out, MsgHeader)
    /\ m_connected' = FALSE
    /\ m_pc' = "connect"
    /\ UNCHANGED <<m_users, m_calls, regVars, utilVars, name>>

\* if db_manager.connect(): print; user_manager = UserManager(db_manager)
\* else: print failure
MainConnect ==
    /\ m_pc = "connect"
    /\ LET r == connect(m_connected)
       IN  /\ m_connected' = r.connected
           /\ m_calls' = Append(m_calls, Call("connect", << >>, r.val))
           /\ IF Truthy(r.val)
              THEN /\ m_out' = Append(m_out, MsgConnectOk)
                   /\ m_users' = EmptyDict
                   /\ m_pc' = "create_user"
              ELSE /\ m_out' = Append(m_out, MsgConnectFailed)
                   /\ m_users' = m_users
                   /\ m_pc' = "done"
    /\ UNCHANGED <<regVars, utilVars, name>>

MainCreateUser ==
    /\ m_pc = "create_user"
    /\ LET r == create_user(m_users, MainUser, MainEmail)
       IN  /\ m_users' = r.users
           /\ m_calls' = Append(m_calls, Call("create_user", <<MainUser, MainEmail>>, r.val))
           /\ m_out' = IF Truthy(r.val) THEN Append(m_out, MsgUserCreated) ELSE m_out
    /\ m_pc' = "authenticate"
    /\ UNCHANGED <<m_connected, regVars, utilVars, name>>

MainAuthenticate ==
    /\ m_pc = "authenticate"
    /\ LET v == authenticate(m_users, MainUser, MainPassword)
       IN  /\ m_calls' = Append(m_calls, Call("authenticate", <<MainUser, MainPassword>>, v))
           /\ m_out' = IF Truthy(v) THEN Append(m_out, MsgUserAuthenticated) ELSE m_out
    /\ m_pc' = "get_user_info"
    /\ UNCHANGED <<m_connected, m_users, regVars, utilVars, name>>

MainGetUserInfo ==
    /\ m_pc = "get_user_info"
    /\ LET user_info == get_user_info(m_users, MainUser)
       IN  /\ m_calls' = Append(m_calls, Call("get_user_info", <<MainUser>>, user_info))
           /\ m_out' = IF Truthy(user_info) THEN Append(m_out, MsgUserInfo(user_info)) ELSE m_out
    /\ m_pc' = "close"
    /\ UNCHANGED <<m_connected, m_users, regVars, utilVars, name>>

MainClose ==
    /\ m_pc = "close"
    /\ m_connected' = close(m_connected)
    /\ m_calls' = Append(m_calls, Call("close", << >>, PyNone))
    /\ m_pc' = "done"
    /\ UNCHANGED <<m_users, m_out, regVars, utilVars, name>>

MainStep ==
    \/ MainStart
    \/ MainConnect
    \/ MainCreateUser
    \/ MainAuthenticate
    \/ MainGetUserInfo
    \/ MainClose

-----------------------------------------------------------------------------
(* Specification of the classes and of main() *)

NoArg == PyNone

Init ==
    /\ name \in {"__main__", "imported"}
    /\ users = EmptyDict
    /\ connected = FALSE
    /\ ret = NoCall
    /\ log = << >>
    /\ m_pc = "start"
    /\ m_connected = FALSE
    /\ m_users = EmptyDict
    /\ m_calls = << >>
    /\ m_out = << >>
    /\ u_pc = "idle"
    /\ u_fn = "none"
    /\ u_arg = NoArg
    /\ u_res = NoArg

Next ==
    \/ CreateUser
    \/ Authenticate
    \/ GetUserInfo
    \/ Connect
    \/ ExecuteQuery
    \/ Close
    \/ MainStart
    \/ MainConnect
    \/ MainCreateUser
    \/ MainAuthenticate
    \/ MainGetUserInfo
    \/ MainClose

Spec == Init /\ [][Next]_vars

\* main() is a sequential program that the interpreter runs to completion
LiveSpec == Init /\ [][Next]_vars /\ WF_vars(MainStep)

-----------------------------------------------------------------------------
(* Inputs of the stateless helpers *)

StringsOver(alphabet, n) == UNION {[1..k -> alphabet] : k \in 0..n}

Prices == {1, 2}

Quantities == {0, 3}

Items ==
    [price : Prices, quantity : Quantities] \cup [price : Prices]
        \cup [quantity : Quantities] \cup {[other |-> 1]}

ItemLists == UNION {[1..k -> Items] : k \in 0..MaxItems}

\* a key that the dict does not contain
Absent == [t |-> "absent"]

MkData(n, e, a, x) ==
    LET all == [name |-> n, email |-> e, age |-> a, extra |-> x]
        present == {f \in DOMAIN all : all[f].t # "absent"}
    IN  [f \in present |-> all[f]]

NameValues ==
    {PyStr(s) : s \in StringsOver({" ", "b", "O"}, MaxNameLen)} \cup {PyNone, PyInt(7), Absent}

EmailValues ==
    {PyStr(s) : s \in StringsOver({" ", "X"}, MaxEmailLen)} \cup {PyNone, Absent}

AgeValues ==
    {PyStr(s) : s \in StringsOver({" ", "5", "-", "a"}, MaxAgeLen)}
        \cup {PyInt(0), PyInt(5), PyNone, PyList(<< >>), PyList(<<5>>), Absent}

ExtraValues == {PyInt(0), Absent}

\* {name: " bob ", email: " BOB@X.COM ", age: "5"}
ExampleBob ==
    MkData(PyStr(<<" ", "b", "o", "b", " ">>),
           PyStr(<<" ", "B", "O", "B", "@", "X", ".", "C", "O", "M", " ">>),
           PyStr(<<"5">>), Absent)

\* {name: "A", email: "a@b.com", age: 0}
ExampleAgeZero ==
    MkData(PyStr(<<"A">>), PyStr(<<"a", "@", "b", ".", "c", "o", "m">>), PyInt(0), Absent)

\* {name: "o'neil mc", email: "A@B.com", age: " 1_0 "}
ExampleTitle ==
    MkData(PyStr(<<"o", "'", "n", "e", "i", "l", " ", "m", "c">>),
           PyStr(<<"A", "@", "B", ".", "c", "o", "m">>),
           PyStr(<<" ", "1", "_", "0", " ">>), Absent)

DataInputs ==
    {MkData(n, e, a, x) : n \in NameValues, e \in EmailValues, a \in AgeValues, x \in ExtraValues}
        \cup {ExampleBob, ExampleAgeZero, ExampleTitle}

-----------------------------------------------------------------------------
(* The helpers applied to one argument each *)

CalculateTotal ==
    /\ u_pc = "call"
    /\ u_fn = "calculate_total"
    /\ u_res' = PyInt(calculate_total(u_arg))
    /\ u_pc' = "done"
    /\ UNCHANGED <<u_fn, u_arg, regVars, mainVars, name>>

ValidateInput ==
    /\ u_pc = "call"
    /\ u_fn = "validate_input"
    /\ u_res' = validate_input(u_arg)
    /\ u_pc' = "done"
    /\ UNCHANGED <<u_fn, u_arg, regVars, mainVars, name>>

ProcessUserData ==
    /\ u_pc = "call"
    /\ u_fn = "process_user_data"
    /\ u_res' = process_user_data(u_arg)
    /\ u_pc' = "done"
    /\ UNCHANGED <<u_fn, u_arg, regVars, mainVars, name>>

InitUtil ==
    /\ name = "imported"
    /\ users = EmptyDict
    /\ connected = FALSE
    /\ ret = NoCall
    /\ log = << >>
    /\ m_pc = "start"
    /\ m_connected = FALSE
    /\ m_users = EmptyDict
    /\ m_calls = << >>
    /\ m_out = << >>
    /\ u_pc = "call"
    /\ u_res = NoArg
    /\ \/ u_fn = "calculate_total" /\ u_arg \in ItemLists
       \/ u_fn = "validate_input" /\ u_arg \in DataInputs
       \/ u_fn = "process_user_data" /\ u_arg \in DataInputs

NextUtil ==
    \/ CalculateTotal
    \/ ValidateInput
    \/ ProcessUserData

SpecUtil == InitUtil /\ [][NextUtil]_vars

-----------------------------------------------------------------------------
(* Properties of the user registry *)

\* C1: create_user returns False iff the username is already a key of the
\* registry (and then changes nothing), otherwise it appends username -> email
\* and returns True; so at most one create_user call per username returns
\* True, and registering the same username twice gives True then False with
\* a registry of size 1.
C1_CreateUserOnce ==
    /\ [][(Len(log') = Len(log) + 1 /\ ret'.op = "create_user") =>
            LET username == ret'.args[1]
                email    == ret'.args[2]
            IN  /\ (ret'.val = PyBool(FALSE)) <=> (username \in DictKeys(users))
                /\ (ret'.val = PyBool(TRUE)) <=> (username \notin DictKeys(users))
                /\ username \in DictKeys(users) => users' = users
                /\ username \notin DictKeys(users) =>
                       users' = Append(users, [k |-> username, v |-> email])]_vars
    /\ [](\A username \in Usernames :
            Cardinality({i \in 1..Len(log) : /\ log[i].op = "create_user"
                                             /\ log[i].args[1] = username
                                             /\ log[i].val = PyBool(TRUE)}) <= 1)
    /\ []((/\ Len(log) >= 2
           /\ log[1].op = "create_user"
           /\ log[2].op = "create_user"
           /\ log[1].args[1] = log[2].args[1]) =>
            /\ log[1].val = PyBool(TRUE)
            /\ log[2].val = PyBool(FALSE)
            /\ Len(log) = 2 => Len(users) = 1)

C1_Witness ==
    /\ Len(log) = 2
    /\ log[1].op = "create_user"
    /\ log[2].op = "create_user"
    /\ log[1].args[1] = log[2].args[1]
    /\ log[1].val = PyBool(TRUE)
    /\ log[2].val = PyBool(FALSE)
    /\ Len(users) = 1

\* C2: a username once mapped to an email stays mapped to that email; the
\* registry changes only in a create_user call that returns True, which adds
\* exactly one new key; every other call leaves the registry unchanged.
C2_RecordsNeverChange ==
    [][/\ \A username \in DictKeys(users) :
              /\ username \in DictKeys(users')
              /\ DictGet(users', username) = DictGet(users, username)
       /\ users' # users =>
              /\ Len(log') = Len(log) + 1
              /\ ret'.op = "create_user"
              /\ ret'.val = PyBool(TRUE)
              /\ ret'.args[1] \notin DictKeys(users)
              /\ DictKeys(users') = DictKeys(users) \cup {ret'.args[1]}
              /\ Len(users') = Len(users) + 1
       /\ (Len(log') = Len(log) + 1 /\ ~(ret'.op = "create_user" /\ ret'.val = PyBool(TRUE))) =>
              users' = users]_vars

C2_Witness ==
    /\ Len(log) = 3
    /\ log[1].op = "create_user"
    /\ log[1].val = PyBool(TRUE)
    /\ log[2].op = "create_user"
    /\ log[2].args[1] = log[1].args[1]
    /\ log[2].args[2] # log[1].args[2]
    /\ log[2].val = PyBool(FALSE)
    /\ log[3].op \in {"authenticate", "get_user_info", "execute_query"}
    /\ users = <<[k |-> log[1].args[1], v |-> log[1].args[2]]>>

\* C3: authenticate returns True iff the username is registered and the
\* password has at least 6 characters, whatever the password's content and
\* whatever the stored email.
C3_AuthenticateLengthOnly ==
    /\ ret.op = "authenticate" =>
           ret.val = PyBool(ret.args[1] \in DictKeys(users) /\ Len(ret.args[2]) >= 6)
    /\ \A username \in Usernames \cup {"unknown"}, password \in Passwords :
           /\ authenticate(users, username, password)
                  = PyBool(username \in DictKeys(users) /\ Len(password) >= 6)
           /\ \A email \in Emails :
                  authenticate([i \in 1..Len(users) |-> [k |-> users[i].k, v |-> email]],
                               username, password)
                      = authenticate(users, username, password)
    /\ authenticate(users, "unknown", Pw11) = PyBool(FALSE)
    /\ \A username \in DictKeys(users) :
           /\ authenticate(users, username, Pw5) = PyBool(FALSE)
           /\ authenticate(users, username, Pw6) = PyBool(TRUE)
           /\ authenticate(users, username, Pw6b) = PyBool(TRUE)

C3_Witness ==
    /\ ret.op = "authenticate"
    /\ ret.args[1] \in DictKeys(users)
    /\ ret.args[2] = Pw6
    /\ ret.val = PyBool(TRUE)

\* C4: get_user_info(username) returns None iff no create_user for that
\* username has succeeded, and otherwise {username, email} with the email of
\* the first create_user call for that username, which is the only one that
\* succeeded.
C4_GetUserInfoFirstEmail ==
    ret.op = "get_user_info" =>
        LET username == ret.args[1]
            creates  == {i \in 1..Len(log) : log[i].op = "create_user" /\ log[i].args[1] = username}
            succ     == {i \in creates : log[i].val = PyBool(TRUE)}
        IN  /\ (ret.val = PyNone) <=> (succ = {})
            /\ succ # {} =>
                   LET first == CHOOSE i \in creates : \A j \in creates : i <= j
                   IN  /\ succ = {first}
                       /\ ret.val = PyDict([username |-> username, email |-> log[first].args[2]])

C4_Witness ==
    /\ Len(log) = 3
    /\ log[1].op = "create_user"
    /\ log[2].op = "create_user"
    /\ log[2].args[1] = log[1].args[1]
    /\ log[2].args[2] # log[1].args[2]
    /\ ret.op = "get_user_info"
    /\ ret.args[1] = log[1].args[1]
    /\ ret.val = PyDict([username |-> log[1].args[1], email |-> log[1].args[2]])

-----------------------------------------------------------------------------
(* Properties of the database stub *)

\* C5: execute_query raises the "not connected" exception iff no connect was
\* called since construction or since the most recent close; otherwise it
\* returns the one record {id: 1, name: "test"} whatever the query; it never
\* changes the connection flag.
C5_ExecuteQuery ==
    /\ [](\A i \in 1..Len(log) :
            log[i].op = "execute_query" =>
                LET prev == {j \in 1..(i - 1) : log[j].op \in {"connect", "close"}}
                    last == CHOOSE j \in prev : \A h \in prev : h <= j
                    conn == prev # {} /\ log[last].op = "connect"
                IN  /\ (log[i].val = PyRaise("Exception", NotConnectedMsg)) <=> ~conn
                    /\ conn => log[i].val = PyList(<<[id |-> 1, name |-> "test"]>>))
    /\ [][(Len(log') = Len(log) + 1 /\ ret'.op = "execute_query") =>
            connected' = connected]_vars

C5_Witness ==
    /\ Len(log) = 3
    /\ log[1].op = "connect"
    /\ log[2].op = "close"
    /\ log[3].op = "execute_query"
    /\ log[3].val = PyRaise("Exception", NotConnectedMsg)
    /\ connected = FALSE

\* C6: the connection flag is False initially, True after every connect and
\* False after every close, from any prior state; connect always returns True.
C6_ConnectionFlag ==
    /\ [](LET prev == {j \in 1..Len(log) : log[j].op \in {"connect", "close"}}
              last == CHOOSE j \in prev : \A h \in prev : h <= j
          IN  /\ connected = (prev # {} /\ log[last].op = "connect")
              /\ \A j \in prev : log[j].op = "connect" => log[j].val = PyBool(TRUE))
    /\ [][/\ (Len(log') = Len(log) + 1 /\ ret'.op = "connect") =>
                 (connected' = TRUE /\ ret'.val = PyBool(TRUE))
          /\ (Len(log') = Len(log) + 1 /\ ret'.op = "close") => connected' = FALSE]_vars

C6_Witness ==
    /\ Len(log) = 3
    /\ log[1].op = "connect"
    /\ log[2].op = "close"
    /\ log[3].op = "connect"
    /\ connected = TRUE

-----------------------------------------------------------------------------
(* Properties of main() *)

MainUserInfo == PyDict([username |-> MainUser, email |-> MainEmail])

\* C10: main() terminates after calling connect, create_user, authenticate,
\* get_user_info and close in this order; all succeed, the connect-failure
\* branch is never taken, the three success messages and the user info are
\* printed, nothing is raised, and at the end the connection flag is False
\* and the registry is exactly john_doe -> john@example.com.
C10_MainRunsToCompletion ==
    /\ (name = "__main__") ~> (m_pc = "done")
    /\ [](\A i \in 1..Len(m_out) : m_out[i] # MsgConnectFailed)
    /\ [](\A i \in 1..Len(m_calls) : m_calls[i].val.t # "raise")
    /\ [](m_pc = "done" =>
            /\ m_calls = << Call("connect", << >>, PyBool(TRUE)),
                            Call("create_user", <<MainUser, MainEmail>>, PyBool(TRUE)),
                            Call("authenticate", <<MainUser, MainPassword>>, PyBool(TRUE)),
                            Call("get_user_info", <<MainUser>>, MainUserInfo),
                            Call("close", << >>, PyNone) >>
            /\ m_out = <<MsgHeader, MsgConnectOk, MsgUserCreated, MsgUserAuthenticated,
                         MsgUserInfo(MainUserInfo)>>
            /\ m_connected = FALSE
            /\ m_users = <<[k |-> MainUser, v |-> MainEmail]>>)

C10_Witness ==
    /\ name = "__main__"
    /\ m_pc = "done"
    /\ Len(m_calls) = 5
    /\ m_connected = FALSE

-----------------------------------------------------------------------------
(* Properties of the stateless helpers *)

\* C7 as stated: process_user_data returns the error record exactly when
\* validate_input rejects; when validate_input accepts (name and email being
\* strings) it returns the normalized record if age is numeric and raises
\* TypeError if age is not numeric.
C7_Original ==
    (u_pc = "done" /\ u_fn = "process_user_data") =>
        LET accepted == validate_input(u_arg) = PyBool(TRUE)
        IN  /\ (u_res = ErrorRecord) <=> ~accepted
            /\ (accepted /\ u_arg["name"].t = "str" /\ u_arg["email"].t = "str") =>
                   LET age     == u_arg["age"]
                       numeric == \/ age.t = "int"
                                  \/ age.t = "str" /\ ParseInt(age.v).t = "int"
                   IN  IF numeric
                       THEN /\ u_res.t = "dict"
                            /\ DOMAIN u_res.v = {"name", "email", "age"}
                       ELSE /\ u_res.t = "raise"
                            /\ u_res.exc = "TypeError"

\* C7 amended: process_user_data returns the error record exactly when
\* validate_input rejects.  When validate_input accepts: a name or email that
\* is not a string raises AttributeError; otherwise an age that is a string
\* int() cannot parse raises ValueError, an age that is neither a string nor
\* a number raises TypeError, and any other age gives the record with name
\* trimmed and title-cased, email trimmed and lower-cased, age as an integer.
C7_ProcessUserData ==
    (u_pc = "done" /\ u_fn = "process_user_data") =>
        LET accepted == validate_input(u_arg) = PyBool(TRUE)
            Trimmed(s, r) ==
                /\ \E i \in 0..Len(s), j \in 0..Len(s) :
                       /\ i + Len(r) + j = Len(s)
                       /\ r = SubSeq(s, i + 1, i + Len(r))
                       /\ \A h \in (1..i) \cup ((Len(s) - j + 1)..Len(s)) : s[h] = " "
                /\ Len(r) > 0 => (r[1] # " " /\ r[Len(r)] # " ")
            SameLetters(a, b) ==
                /\ Len(a) = Len(b)
                /\ \A i \in 1..Len(a) : LowerChar(a[i]) = LowerChar(b[i])
            TitleCased(r) ==
                \A i \in 1..Len(r) :
                    /\ (i = 1 \/ ~IsCased(r[i - 1])) => ~IsIn(r[i], LowerLetters)
                    /\ (i > 1 /\ IsCased(r[i - 1])) => ~IsIn(r[i], UpperLetters)
            LowerCased(r) == \A i \in 1..Len(r) : ~IsIn(r[i], UpperLetters)
        IN  /\ (u_res = ErrorRecord) <=> ~accepted
            /\ accepted =>
                   LET n == u_arg["name"]
                       e == u_arg["email"]
                       a == u_arg["age"]
                   IN  IF n.t # "str" \/ e.t # "str"
                       THEN u_res.t = "raise" /\ u_res.exc = "AttributeError"
                       ELSE IF a.t = "str" /\ ParseInt(a.v).t = "raise"
                       THEN u_res.t = "raise" /\ u_res.exc = "ValueError"
                       ELSE IF a.t \notin {"str", "int", "bool"}
                       THEN u_res.t = "raise" /\ u_res.exc = "TypeError"
                       ELSE /\ u_res.t = "dict"
                            /\ DOMAIN u_res.v = {"name", "email", "age"}
                            /\ \E t \in {SubSeq(n.v, i, j) : i \in 1..(Len(n.v) + 1), j \in 0..Len(n.v)} :
                                   /\ Trimmed(n.v, t)
                                   /\ SameLetters(u_res.v.name.v, t)
                            /\ TitleCased(u_res.v.name.v)
                            /\ \E t \in {SubSeq(e.v, i, j) : i \in 1..(Len(e.v) + 1), j \in 0..Len(e.v)} :
                                   /\ Trimmed(e.v, t)
                                   /\ SameLetters(u_res.v.email.v, t)
                            /\ LowerCased(u_res.v.email.v)
                            /\ u_res.v.age.t = "int"
                            /\ a.t = "int" => u_res.v.age = a
                            /\ a = PyStr(<<"5">>) => u_res.v.age = PyInt(5)
                            /\ a = PyStr(<<"5", "5">>) => u_res.v.age = PyInt(55)
                            /\ a = PyStr(<<"-", "5">>) => u_res.v.age = PyInt(-5)
                            /\ a = PyStr(<<" ", "5">>) => u_res.v.age = PyInt(5)
            /\ u_arg = ExampleBob =>
                   u_res = PyDict([name  |-> PyStr(<<"B", "o", "b">>),
                                   email |-> PyStr(<<"b", "o", "b", "@", "x", ".", "c", "o", "m">>),
                                   age   |-> PyInt(5)])
            /\ u_arg = ExampleTitle =>
                   u_res = PyDict([name  |-> PyStr(<<"O", "'", "N", "e", "i", "l", " ", "M", "c">>),
                                   email |-> PyStr(<<"a", "@", "b", ".", "c", "o", "m">>),
                                   age   |-> PyInt(10)])

C7_Witness ==
    /\ u_pc = "done"
    /\ u_fn = "process_user_data"
    /\ validate_input(u_arg) = PyBool(TRUE)
    /\ u_arg["name"].t = "str"
    /\ u_arg["email"].t = "str"
    /\ u_arg["age"] = PyStr(<<"a">>)
    /\ u_res.t = "raise"
    /\ u_res.exc = "ValueError"

\* C8: validate_input returns False iff one of name, email, age is absent or
\* falsy (empty string, 0, None, empty list) and True otherwise; age 0 is
\* rejected; other fields do not affect the result.
C8_ValidateInput ==
    (u_pc = "done" /\ u_fn = "validate_input") =>
        LET Falsy(x) == \/ x.t = "none"
                        \/ x.t = "str" /\ x.v = << >>
                        \/ x.t = "int" /\ x.v = 0
                        \/ x.t = "list" /\ x.v = << >>
            bad == \E f \in {"name", "email", "age"} : f \notin DOMAIN u_arg \/ Falsy(u_arg[f])
            required == [f \in DOMAIN u_arg \cap {"name", "email", "age"} |-> u_arg[f]]
        IN  /\ (u_res = PyBool(FALSE)) <=> bad
            /\ (u_res = PyBool(TRUE)) <=> ~bad
            /\ ("age" \in DOMAIN u_arg /\ u_arg["age"] = PyInt(0)) => u_res = PyBool(FALSE)
            /\ validate_input(required) = u_res

C8_Witness ==
    /\ u_pc = "done"
    /\ u_fn = "validate_input"
    /\ u_arg = ExampleAgeZero
    /\ u_res = PyBool(FALSE)

\* C9: calculate_total is the sum of price * quantity over the items that
\* have both fields; the other items contribute 0, the empty list gives 0,
\* and the order of the items does not matter.
C9_CalculateTotal ==
    (u_pc = "done" /\ u_fn = "calculate_total") =>
        LET both == {i \in 1..Len(u_arg) : {"price", "quantity"} \subseteq DOMAIN u_arg[i]}
            RECURSIVE SumOver(_)
            SumOver(S) ==
                IF S = {} THEN 0
                ELSE LET i == CHOOSE x \in S : TRUE
                     IN  u_arg[i]["price"] * u_arg[i]["quantity"] + SumOver(S \ {i})
        IN  /\ u_res = PyInt(SumOver(both))
            /\ u_arg = << >> => u_res = PyInt(0)
            /\ \A perm \in Permutations(1..Len(u_arg)) :
                   PyInt(calculate_total([i \in 1..Len(u_arg) |-> u_arg[perm[i]]])) = u_res

C9_Witness ==
    /\ u_pc = "done"
    /\ u_fn = "calculate_total"
    /\ u_arg = <<[price |-> 2, quantity |-> 3], [price |-> 1]>>
    /\ u_res = PyInt(6)

====
